---------------------------- MODULE Spec2Model ----------------------------
(***************************************************************************)
(* A model of the p5.js sketch sketchToPerlin.js: the five boards L, R, P, *)
(* A, B, the globals of the sketch and its event handlers (setup, draw,    *)
(* mousePressed, mouseReleased).                                           *)
(*                                                                         *)
(* Numbers.  Pointer coordinates and the program's integer constants are   *)
(* integers.  Every other number of the sketch is a real: it is kept in    *)
(* fixed point, as an integer count of 1/Scale.  Real(v) embeds an integer.*)
(* A noise value is one of the NoiseRes levels k/NoiseRes, k < NoiseRes.   *)
(*                                                                         *)
(* Boards.  A board variable records the latest render of that board by    *)
(* what the render read (the noise table, the offset and, for P, the       *)
(* stroke).  The shapes the render drew are a function of these: ShapesR,  *)
(* ShapesA (circles <<x, y, diameter>>, in drawing order), ShapesP and     *)
(* ShapesB (line segments <<x1, y1, x2, y2>>, in drawing order).  The      *)
(* pixels of board L and the borders and labels drawn by drawBoard are not *)
(* modelled.                                                               *)
(***************************************************************************)
EXTENDS Integers, Sequences, FiniteSets, TLC

VARIABLES
    started,        \* setup() has run
    perlin,         \* p5's noise table (0: not built yet), fixed once built
    offsetR,        \* let offsetR
    offsetA,        \* let offsetA
    drawing,        \* let drawing: sequence of points <<x, y>>
    lastClickTime,  \* let lastClickTime
    mouseIsPressed, \* p5 system variables
    mouseX,
    mouseY,
    boardR,         \* the latest render of R (dotGridR)
    boardA,         \* the latest render of A (dotGridA)
    boardP,         \* the latest render of P (f)
    boardB,         \* the latest render of B (translateAToB)
    callLog,        \* the steps of the latest setup/mousePressed/mouseReleased
    pressCount,     \* history: pointer-down events so far
    pressInL,       \* history: the latest pointer-down was inside region L
    pressBase,      \* history: Len(drawing) when the latest mousePressed returned
    pressTicks,     \* history: frames of the latest press that passed draw's test
    moved,          \* history: a pointer-move event arrived since the last frame
    gridIn,         \* GridSpec only: the region and step of a grid enumeration
    gridOut         \* GridSpec only: the centres the enumeration visited

vars == <<started, perlin, offsetR, offsetA, drawing, lastClickTime,
          mouseIsPressed, mouseX, mouseY, boardR, boardA, boardP, boardB,
          callLog, pressCount, pressInL, pressBase, pressTicks, moved,
          gridIn, gridOut>>

---------------------------------------------------------------------------
(* Bounds of the model *)

MaxStroke == 3      \* draw is not taken when the stroke already has this many points
MaxPresses == 2     \* pointer-down events per behaviour
NoiseRes == 8       \* number of levels of a noise value
MaxIter == 700      \* LoopSpec: a grid loop is followed for this many iterations

(* Program constants *)

xScale == 15                \* 0.015, in thousandths
yScale == 20                \* 0.02, in thousandths
gap == 20
initOffsetR == 100
initOffsetA == 200
doubleClickThreshold == 300
height == 1536              \* createCanvas(1024, 1536)
sectionSize == 512          \* the side of a board
randomMax == 1000           \* random(1000)
mapLow == -10               \* map(noiseValue, 0, 1, -10, 10)
mapHigh == 10

Scale == 2 * NoiseRes
Real(v) == v * Scale
Abs(v) == IF v < 0 THEN -v ELSE v

(* The pointer positions the environment delivers: inside L, left of the   *)
(* canvas, right of L, below L.                                            *)
Positions == {<<100, 100>>, <<-5, 100>>, <<600, 100>>, <<100, 600>>}

(* The clock advance between two readings of millis().                     *)
ClickGaps == {doubleClickThreshold - 1, doubleClickThreshold}

(* The noise table p5 builds at the first noise() call.                    *)
NoiseSeeds == {1}

---------------------------------------------------------------------------
(* The host library (p5.js) *)

(* random(max): a real in [0, max).  The least and the greatest value of   *)
(* the fixed-point range.                                                  *)
random(max) == {0, Real(max) - 1}

(* noise(x, y): a real in [0, 1), a fixed function of (x, y) once the      *)
(* table is built; negative arguments are mirrored.  The arguments are in  *)
(* 1/(1000 * Scale).                                                       *)
noise(table, x, y) ==
    LET cx == Abs(x) \div (25 * Scale)
        cy == Abs(y) \div (25 * Scale)
        level == (cx * (2 * table + 1) + cy * (table + 2) + (cx * cy) \div 7) % NoiseRes
    IN  2 * level

(* map(n, start1, stop1, start2, stop2), all reals.                        *)
map(n, start1, stop1, start2, stop2) ==
    ((n - start1) * (stop2 - start2)) \div (stop1 - start1) + start2

(* JavaScript truthiness of a number variable: <<>> is undefined, <<v>> a  *)
(* number.                                                                 *)
undefined == <<>>
Truthy(v) == v # undefined /\ v[1] # 0

---------------------------------------------------------------------------
(* The state the handlers work on, as one record *)

Globals ==
    [perlin |-> perlin, offsetR |-> offsetR, offsetA |-> offsetA,
     drawing |-> drawing, boardR |-> boardR, boardA |-> boardA,
     boardP |-> boardP, boardB |-> boardB, callLog |-> callLog]

(* One entry of callLog: the step and the globals after it.                *)
Logged(s, op) ==
    [s EXCEPT !.callLog = Append(@, [op |-> op, offsetR |-> s.offsetR,
                                     offsetA |-> s.offsetA,
                                     stroke |-> s.drawing])]

Enter(s, handler) == Logged([s EXCEPT !.callLog = <<>>], handler)

---------------------------------------------------------------------------
(* Grid loops *)

(* for (let y = yStart; y < yLim; y += g) within one x: the centres.       *)
RECURSIVE GridColumn(_, _, _, _)
GridColumn(x, y, yLim, g) ==
    IF y < yLim THEN <<<<x, y>>>> \o GridColumn(x, y + g, yLim, g) ELSE <<>>

(* for (let x = xStart; x < xLim; x += g) around the y loop.               *)
RECURSIVE GridRows(_, _, _, _, _)
GridRows(x, xLim, yStart, yLim, g) ==
    IF x < xLim
    THEN GridColumn(x, yStart, yLim, g) \o GridRows(x + g, xLim, yStart, yLim, g)
    ELSE <<>>

(* The loops starting at the origin instead of half a step in.             *)
GridLoop_fromOrigin(xOrigin, xLim, yOrigin, yLim, g) ==
    GridRows(xOrigin, xLim, yOrigin, yLim, g)

(* The loops of dotGridR, dotGridA and translateAToB: start half a step in.*)
GridLoop(xOrigin, xLim, yOrigin, yLim, g) ==
    GridRows(xOrigin + g \div 2, xLim, yOrigin + g \div 2, yLim, g)

CentresR ==
    GridLoop(Real(512), Real(1024), Real(0), Real(height \div 3), Real(gap))

CentresA ==
    GridLoop(Real(512), Real(1024), Real(512), Real(1024), Real(gap))

CentresB ==
    GridLoop(Real(512), Real(1024), Real(512), Real(1024), Real(gap))

(* The offsets a field can hold.                                           *)
OffsetValues == random(randomMax) \cup {Real(initOffsetR), Real(initOffsetA)}

(* The sample taken with the offset added after scaling.                   *)
noiseAt_offsetAfterScaling(table, x, y, offset) ==
    noise(table, x * xScale + offset * 1000, y * yScale + offset * 1000)

(* noise((x + offset) * xScale, (y + offset) * yScale)                     *)
noiseAt(table, x, y, offset) == noise(table, (x + offset) * xScale, (y + offset) * yScale)

(* The body of the dot loops: circle(x, y, noiseValue * gap).              *)
Circle(table, c, offset) == <<c[1], c[2], noiseAt(table, c[1], c[2], offset) * gap>>

CirclesR[table \in NoiseSeeds, offset \in OffsetValues] ==
    [k \in DOMAIN CentresR |-> Circle(table, CentresR[k], offset)]

CirclesA[table \in NoiseSeeds, offset \in OffsetValues] ==
    [k \in DOMAIN CentresA |-> Circle(table, CentresA[k], offset)]

---------------------------------------------------------------------------
(* The functions of the sketch *)

drawBoard(s) == Logged(s, "drawBoard")

(* A board nothing was rendered on, and a render reading (table, offset,   *)
(* stroke).                                                                *)
Blank == [rendered |-> FALSE, table |-> 0, offset |-> 0, stroke |-> <<>>]
Render(table, offset, stroke) ==
    [rendered |-> TRUE, table |-> table, offset |-> offset, stroke |-> stroke]

(* dotGridR adding the random value to the offset (offsetR += random).     *)
dotGridR_accumulates(s, r) ==
    LET s1 == Logged([s EXCEPT !.offsetR = s.offsetR + r], "offsetR = random")
    IN  Logged([s1 EXCEPT !.boardR = Render(s1.perlin, s1.offsetR, <<>>)], "dotGridR")

dotGridR(s, r) ==
    LET s1 == Logged([s EXCEPT !.offsetR = r], "offsetR = random")
    IN  Logged([s1 EXCEPT !.boardR = Render(s1.perlin, s1.offsetR, <<>>)], "dotGridR")

(* dotGridA with one offset shared by both fields.                         *)
dotGridA_sharedOffset(s, r) ==
    LET s1 == Logged([s EXCEPT !.offsetA = r, !.offsetR = r], "offsetA = random")
    IN  Logged([s1 EXCEPT !.boardA = Render(s1.perlin, s1.offsetA, <<>>)], "dotGridA")

(* dotGridA rendering with the offset it finds, without drawing a new one. *)
dotGridA_noReseed(s, r) ==
    Logged([s EXCEPT !.boardA = Render(s.perlin, s.offsetA, <<>>)], "dotGridA")

dotGridA(s, r) ==
    LET s1 == Logged([s EXCEPT !.offsetA = r], "offsetA = random")
    IN  Logged([s1 EXCEPT !.boardA = Render(s1.perlin, s1.offsetA, <<>>)], "dotGridA")

(* A displaced point with the noise value mapped to twice the range.       *)
Displaced_wide(table, x, y, offset) ==
    LET noiseValue == noiseAt(table, x, y, offset)
        newX == x + map(noiseValue, Real(0), Real(1), 2 * Real(mapLow), 2 * Real(mapHigh))
        newY == y + map(noiseValue, Real(0), Real(1), 2 * Real(mapLow), 2 * Real(mapHigh))
    IN  <<newX, newY>>

(* One displaced point: <<newX, newY>>.                                    *)
Displaced(table, x, y, offset) ==
    LET noiseValue == noiseAt(table, x, y, offset)
        newX == x + map(noiseValue, Real(0), Real(1), Real(mapLow), Real(mapHigh))
        newY == y + map(noiseValue, Real(0), Real(1), Real(mapLow), Real(mapHigh))
    IN  <<newX, newY>>

(* The points translateAToB computes, in loop order: <<newX, newY>>.       *)
PointsB[table \in NoiseSeeds, offset \in OffsetValues] ==
    [k \in DOMAIN CentresB |->
        Displaced(table, CentresB[k][1], CentresB[k][2], offset)]

(* prevX and prevY declared inside the x loop: undefined at the first      *)
(* point of every column.                                                  *)
PrevB_perColumn(pts, k) ==
    IF k = 1 \/ CentresB[k][1] # CentresB[k - 1][1]
    THEN [x |-> undefined, y |-> undefined]
    ELSE [x |-> <<pts[k - 1][1]>>, y |-> <<pts[k - 1][2]>>]

(* prevX and prevY at the start of iteration k of translateAToB (k from 1):*)
(* undefined at first, then the newX and newY the iteration before stored. *)
PrevB(pts, k) ==
    IF k = 1 THEN [x |-> undefined, y |-> undefined]
    ELSE [x |-> <<pts[k - 1][1]>>, y |-> <<pts[k - 1][2]>>]

(* The lines translateAToB draws: iteration k draws one when prevX && prevY.*)
LinesOfB(pts) ==
    LET drawn == SelectSeq([k \in DOMAIN pts |-> k],
                           LAMBDA k : Truthy(PrevB(pts, k).x) /\ Truthy(PrevB(pts, k).y))
    IN  [i \in DOMAIN drawn |->
            <<PrevB(pts, drawn[i]).x[1] - Real(512), PrevB(pts, drawn[i]).y[1] + Real(512),
              pts[drawn[i]][1] - Real(512), pts[drawn[i]][2] + Real(512)>>]

LinesB[table \in NoiseSeeds, offset \in OffsetValues] == LinesOfB(PointsB[table, offset])

(* translateAToB sampling field R's offset.                                 *)
translateAToB_otherField(s) ==
    Logged([s EXCEPT !.boardB = Render(s.perlin, s.offsetR, <<>>)], "translateAToB")

translateAToB(s) ==
    Logged([s EXCEPT !.boardB = Render(s.perlin, s.offsetA, <<>>)], "translateAToB")

(* The body of f's loop joining points from the third one on (i > 1).      *)
FStep_fromSecond(table, offset, pt, i, st) ==
    LET new == Displaced(table, Real(pt[1]), Real(pt[2]), offset)
        lines == IF i > 1
                 THEN Append(st.lines,
                             <<st.prevX[1], st.prevY[1] + Real(512),
                               new[1], new[2] + Real(512)>>)
                 ELSE st.lines
    IN  [prevX |-> <<new[1]>>, prevY |-> <<new[2]>>,
         points |-> Append(st.points, new), lines |-> lines]

(* The body of f's loop at index i (0-based, as in the source), on point   *)
(* pt; st holds prevX, prevY, the points computed and the lines drawn.     *)
FStep(table, offset, pt, i, st) ==
    LET new == Displaced(table, Real(pt[1]), Real(pt[2]), offset)
        lines == IF i > 0
                 THEN Append(st.lines,
                             <<st.prevX[1], st.prevY[1] + Real(512),
                               new[1], new[2] + Real(512)>>)
                 ELSE st.lines
    IN  [prevX |-> <<new[1]>>, prevY |-> <<new[2]>>,
         points |-> Append(st.points, new), lines |-> lines]

(* for (let i = 0; i < drawing.length; i++)                                *)
RECURSIVE FLoop(_, _, _, _, _)
FLoop(table, offset, pts, i, st) ==
    IF i < Len(pts)
    THEN FLoop(table, offset, pts, i + 1, FStep(table, offset, pts[i + 1], i, st))
    ELSE st

(* What f computes on the stroke pts: the transformed points and the lines.*)
FRun(table, offset, pts) ==
    FLoop(table, offset, pts, 0,
          [prevX |-> undefined, prevY |-> undefined, points |-> <<>>, lines |-> <<>>])

LinesP(table, offset, pts) == FRun(table, offset, pts).lines

(* f emptying the stroke once it has drawn it.                             *)
f_consumesStroke(s) ==
    Logged([s EXCEPT !.boardP = Render(s.perlin, s.offsetR, s.drawing),
                     !.drawing = <<>>], "f")

f(s) ==
    Logged([s EXCEPT !.boardP = Render(s.perlin, s.offsetR, s.drawing)], "f")

(* The shapes on the boards.                                               *)
ShapesR == IF boardR.rendered THEN CirclesR[boardR.table, boardR.offset] ELSE <<>>
ShapesA == IF boardA.rendered THEN CirclesA[boardA.table, boardA.offset] ELSE <<>>
ShapesB == IF boardB.rendered THEN LinesB[boardB.table, boardB.offset] ELSE <<>>
ShapesP == IF boardP.rendered
           THEN LinesP(boardP.table, boardP.offset, boardP.stroke) ELSE <<>>

(* resetLeftSide without drawing = [].                                     *)
resetLeftSide_keepsStroke(s) == Logged(drawBoard(s), "resetLeftSide")

resetLeftSide(s) ==
    LET s1 == drawBoard(s)
    IN  Logged([s1 EXCEPT !.drawing = <<>>], "resetLeftSide")

(* The test of draw without mouseIsPressed.                                *)
drawTest_ignoresButton(pressed, x, y) == x <= 512 /\ y <= 512

(* The test of draw.                                                       *)
drawTest(pressed, x, y) == pressed /\ x <= 512 /\ y <= 512

(* draw() saving a point only when it differs from the last one saved.     *)
drawBody_skipsRepeat(stroke, pressed, x, y) ==
    IF drawTest(pressed, x, y) /\ (stroke = <<>> \/ stroke[Len(stroke)] # <<x, y>>)
    THEN Append(stroke, <<x, y>>) ELSE stroke

(* draw(): the stroke after one frame.                                     *)
drawBody(stroke, pressed, x, y) ==
    IF drawTest(pressed, x, y) THEN Append(stroke, <<x, y>>) ELSE stroke

(* The test of mousePressed.                                               *)
doubleClick(currentTime, last, x, y) ==
    currentTime - last < doubleClickThreshold /\ x <= 512 /\ y <= 512

(* Region L: rect(0, 0, 512, 512).                                         *)
InL(x, y) == 0 <= x /\ x <= sectionSize /\ 0 <= y /\ y <= sectionSize

---------------------------------------------------------------------------
(* The handlers *)

Store(s) ==
    /\ perlin' = s.perlin
    /\ offsetR' = s.offsetR
    /\ offsetA' = s.offsetA
    /\ drawing' = s.drawing
    /\ boardR' = s.boardR
    /\ boardA' = s.boardA
    /\ boardP' = s.boardP
    /\ boardB' = s.boardB
    /\ callLog' = s.callLog

setupBody(s, table, r, a) ==
    dotGridA(dotGridR(drawBoard(Enter([s EXCEPT !.perlin = table], "setup")), r), a)

(* mouseReleased regenerating grid R a second time before f.               *)
mouseReleasedBody_gridTwice(s, r, a) ==
    translateAToB(dotGridA(f(dotGridR(dotGridR(Enter(s, "mouseReleased"), r), r)), a))

(* mouseReleased running f before dotGridR has reseeded field R.           *)
mouseReleasedBody_transformFirst(s, r, a) ==
    translateAToB(dotGridA(dotGridR(f(Enter(s, "mouseReleased")), r), a))

mouseReleasedBody(s, r, a) ==
    translateAToB(dotGridA(f(dotGridR(Enter(s, "mouseReleased"), r)), a))

mousePressedBody(s, currentTime, last, x, y) ==
    IF doubleClick(currentTime, last, x, y)
    THEN resetLeftSide(Enter(s, "mousePressed"))
    ELSE Enter(s, "mousePressed")

InitSketch ==
    /\ started = FALSE
    /\ perlin = 0
    /\ offsetR = Real(initOffsetR)
    /\ offsetA = Real(initOffsetA)
    /\ drawing = <<>>
    /\ lastClickTime = 0
    /\ mouseIsPressed = FALSE
    /\ mouseX = 0
    /\ mouseY = 0
    /\ boardR = Blank
    /\ boardA = Blank
    /\ boardP = Blank
    /\ boardB = Blank
    /\ callLog = <<>>
    /\ pressCount = 0
    /\ pressInL = FALSE
    /\ pressBase = 0
    /\ pressTicks = 0
    /\ moved = FALSE

NoGrid == [ox |-> 0, oy |-> 0, w |-> 0, h |-> 0, g |-> 0, done |-> FALSE]

Init ==
    /\ InitSketch
    /\ gridIn = NoGrid
    /\ gridOut = <<>>

(* setup(): the noise table is built by the first noise() call.            *)
Setup ==
    /\ ~started
    /\ started' = TRUE
    /\ \E table \in NoiseSeeds, r \in random(randomMax), a \in random(randomMax) :
          Store(setupBody(Globals, table, r, a))
    /\ UNCHANGED <<lastClickTime, mouseIsPressed, mouseX, mouseY,
                   pressCount, pressInL, pressBase, pressTicks, moved,
                   gridIn, gridOut>>

(* draw(): one frame.                                                      *)
Draw ==
    /\ started
    /\ drawing' = drawBody(drawing, mouseIsPressed, mouseX, mouseY)
    /\ Len(drawing') <= MaxStroke
    /\ pressTicks' = IF mouseIsPressed /\ mouseX <= 512 /\ mouseY <= 512
                     THEN pressTicks + 1 ELSE pressTicks
    /\ moved' = FALSE
    /\ UNCHANGED <<started, perlin, offsetR, offsetA, lastClickTime,
                   mouseIsPressed, mouseX, mouseY, boardR, boardA, boardP,
                   boardB, callLog, pressCount, pressInL, pressBase,
                   gridIn, gridOut>>

(* A pointer-move event while the button is held.                          *)
MouseMoved ==
    /\ started
    /\ mouseIsPressed
    /\ \E p \in Positions :
          /\ p # <<mouseX, mouseY>>
          /\ mouseX' = p[1]
          /\ mouseY' = p[2]
    /\ moved' = TRUE
    /\ UNCHANGED <<started, perlin, offsetR, offsetA, drawing, lastClickTime,
                   mouseIsPressed, boardR, boardA, boardP, boardB, callLog,
                   pressCount, pressInL, pressBase, pressTicks,
                   gridIn, gridOut>>

(* A pointer-down event at p, millis() reading currentTime.                *)
MousePressed ==
    /\ started
    /\ ~mouseIsPressed
    /\ pressCount < MaxPresses
    /\ \E p \in Positions, d \in ClickGaps :
          LET currentTime == lastClickTime + d
              s == mousePressedBody(Globals, currentTime, lastClickTime, p[1], p[2])
          IN  /\ mouseX' = p[1]
              /\ mouseY' = p[2]
              /\ Store(s)
              /\ lastClickTime' = currentTime
              /\ pressInL' = InL(p[1], p[2])
              /\ pressBase' = Len(s.drawing)
    /\ mouseIsPressed' = TRUE
    /\ pressCount' = pressCount + 1
    /\ pressTicks' = 0
    /\ moved' = FALSE
    /\ UNCHANGED <<started, gridIn, gridOut>>

(* A pointer-up event.                                                     *)
MouseReleased ==
    /\ started
    /\ mouseIsPressed
    /\ mouseIsPressed' = FALSE
    /\ \E r \in random(randomMax), a \in random(randomMax) :
          Store(mouseReleasedBody(Globals, r, a))
    /\ UNCHANGED <<started, lastClickTime, mouseX, mouseY, pressCount,
                   pressInL, pressBase, pressTicks, moved, gridIn, gridOut>>

Next == Setup \/ Draw \/ MouseMoved \/ MousePressed \/ MouseReleased

Spec == Init /\ [][Next]_vars

---------------------------------------------------------------------------
(* Grid enumeration on its own: the loops of dotGridR, dotGridA and        *)
(* translateAToB run over a region with origin (ox, oy), extent (w, h) and *)
(* step g, all in pixels.                                                  *)

GridOrigins == {0, 512}
GridExtents == {0, 10, 40, 50, 512}
GridSteps == {15, 20, 40}

GridInputs ==
    [ox : GridOrigins, oy : GridOrigins, w : GridExtents, h : GridExtents,
     g : GridSteps, done : {FALSE}]

InitGrid ==
    /\ InitSketch
    /\ gridIn \in GridInputs
    /\ gridOut = <<>>

Enumerate ==
    /\ ~gridIn.done
    /\ gridOut' = GridLoop(Real(gridIn.ox), Real(gridIn.ox + gridIn.w),
                           Real(gridIn.oy), Real(gridIn.oy + gridIn.h),
                           Real(gridIn.g))
    /\ gridIn' = [gridIn EXCEPT !.done = TRUE]
    /\ UNCHANGED <<started, perlin, offsetR, offsetA, drawing, lastClickTime,
                   mouseIsPressed, mouseX, mouseY, boardR, boardA, boardP,
                   boardB, callLog, pressCount, pressInL, pressBase,
                   pressTicks, moved>>

NextGrid == Enumerate

GridSpec == InitGrid /\ [][NextGrid]_vars

---------------------------------------------------------------------------
(* The grid loops step by step, as a function of the global gap: the two   *)
(* nested for statements of dotGridR (region R) and of dotGridA and        *)
(* translateAToB (region A), one action per loop step.  gridIn holds the   *)
(* step g, the region, the loop variables x and y and the position pc;     *)
(* gridOut the centres the body has run on.                                *)

LoopSteps == {-gap, 0, gap}
LoopRegions == {[ox |-> 512, oy |-> 0, xLim |-> 1024, yLim |-> height \div 3],
                [ox |-> 512, oy |-> 512, xLim |-> 1024, yLim |-> 1024]}

InitLoop ==
    /\ InitSketch
    /\ \E g \in LoopSteps, region \in LoopRegions :
          gridIn = [g |-> g, region |-> region, x |-> 0, y |-> 0, pc |-> "start"]
    /\ gridOut = <<>>

(* let x = ox + gap / 2                                                    *)
LoopBegin ==
    /\ gridIn.pc = "start"
    /\ gridIn' = [gridIn EXCEPT !.x = Real(gridIn.region.ox) + Real(gridIn.g) \div 2,
                                !.pc = "outer"]
    /\ UNCHANGED gridOut

(* x < xLim ? let y = oy + gap / 2 : leave the loops                       *)
LoopOuter ==
    /\ gridIn.pc = "outer"
    /\ gridIn' = IF gridIn.x < Real(gridIn.region.xLim)
                 THEN [gridIn EXCEPT !.y = Real(gridIn.region.oy) + Real(gridIn.g) \div 2,
                                     !.pc = "inner"]
                 ELSE [gridIn EXCEPT !.pc = "done"]
    /\ UNCHANGED gridOut

(* y < yLim ? the body, then y += gap : x += gap                           *)
LoopInner ==
    /\ gridIn.pc = "inner"
    /\ Len(gridOut) < MaxIter
    /\ IF gridIn.y < Real(gridIn.region.yLim)
       THEN /\ gridOut' = Append(gridOut, <<gridIn.x, gridIn.y>>)
            /\ gridIn' = [gridIn EXCEPT !.y = @ + Real(gridIn.g)]
       ELSE /\ gridIn' = [gridIn EXCEPT !.x = @ + Real(gridIn.g), !.pc = "outer"]
            /\ UNCHANGED gridOut

NextLoop ==
    /\ LoopBegin \/ LoopOuter \/ LoopInner
    /\ UNCHANGED <<started, perlin, offsetR, offsetA, drawing, lastClickTime,
                   mouseIsPressed, mouseX, mouseY, boardR, boardA, boardP,
                   boardB, callLog, pressCount, pressInL, pressBase,
                   pressTicks, moved>>

LoopSpec == InitLoop /\ [][NextLoop]_vars

---------------------------------------------------------------------------
(* Properties *)

OpCount(log, op) == Cardinality({k \in DOMAIN log : log[k].op = op})
Entry(log, op) == log[CHOOSE k \in DOMAIN log : log[k].op = op]
AfterRelease == callLog # <<>> /\ callLog[1].op = "mouseReleased"
ResetFired(log) == \E k \in DOMAIN log : log[k].op = "resetLeftSide"

ReleaseSteps ==
    {"offsetR = random", "dotGridR", "f", "offsetA = random", "dotGridA",
     "translateAToB"}

(* C1: a pointer-up writes offsetR once and offsetA once, runs dotGridR,   *)
(* dotGridA, f and translateAToB once each, and f consumes the stroke      *)
(* captured at the pointer-up.                                             *)
C1_ReleaseRunsEachStepOnce ==
    AfterRelease =>
        /\ \A op \in ReleaseSteps : OpCount(callLog, op) = 1
        /\ boardP.rendered /\ boardP.stroke = callLog[1].stroke
        /\ boardR.rendered /\ boardA.rendered /\ boardB.rendered

C1_Witness == AfterRelease /\ Len(callLog[1].stroke) >= 2

(* C2: offsetR changes only at the write in dotGridR and offsetA only at   *)
(* the write in dotGridA: every other step of a handler (the other field's *)
(* reseed, f, translateAToB, drawBoard, resetLeftSide) leaves it as it     *)
(* was, a handler starts from the offsets of the state it is called in,    *)
(* and draw and pointer moves leave both as the last handler left them.    *)
C2_LogFrame ==
    /\ callLog = <<>> => offsetR = Real(initOffsetR) /\ offsetA = Real(initOffsetA)
    /\ callLog # <<>> =>
            /\ offsetR = callLog[Len(callLog)].offsetR
            /\ offsetA = callLog[Len(callLog)].offsetA
    /\ \A k \in 2..Len(callLog) :
            /\ callLog[k].op # "offsetR = random" =>
                    callLog[k].offsetR = callLog[k - 1].offsetR
            /\ callLog[k].op # "offsetA = random" =>
                    callLog[k].offsetA = callLog[k - 1].offsetA

C2_OffsetIndependence ==
    /\ []C2_LogFrame
    /\ [][callLog' # callLog =>
            callLog'[1].offsetR = offsetR /\ callLog'[1].offsetA = offsetA]_vars

C2_Witness ==
    /\ AfterRelease
    /\ Entry(callLog, "dotGridR").offsetR # callLog[1].offsetR
    /\ Entry(callLog, "dotGridR").offsetA = callLog[1].offsetA
    /\ Entry(callLog, "dotGridA").offsetA # callLog[1].offsetA
    /\ Entry(callLog, "dotGridA").offsetR = Entry(callLog, "dotGridR").offsetR

(* C3: the pointer-down that fires resetLeftSide leaves the stroke empty   *)
(* and both offsets as they were.                                          *)
C3_ResetClearsStrokeOnly ==
    [][(pressCount' = pressCount + 1 /\ ResetFired(callLog')) =>
            (drawing' = <<>> /\ offsetR' = offsetR /\ offsetA' = offsetA)]_vars

C3_Witness ==
    /\ ResetFired(callLog)
    /\ Len(callLog[1].stroke) >= 2
    /\ drawing = <<>>
    /\ offsetR # Real(initOffsetR)

(* C4: every point of the stroke lies inside region L.                     *)
C4_StrokeInsideL == \A i \in DOMAIN drawing : InL(drawing[i][1], drawing[i][2])

(* C5, as claimed: a point is appended only during a press that began      *)
(* inside region L; a press that began outside L appends no point once the *)
(* pointer is dragged into L.                                              *)
C5_AppendOnlyIfPressBeganInL ==
    [][(Len(drawing') > Len(drawing) /\ InL(mouseX, mouseY)) => pressInL]_vars

(* C5, amended: a point is appended only while the pointer is pressed and  *)
(* its current position passes draw's test, and the point is that          *)
(* position; where the press began plays no part.                          *)
C5_AppendOnlyWhilePressedInTest ==
    [][Len(drawing') > Len(drawing) =>
            /\ mouseIsPressed /\ mouseX <= 512 /\ mouseY <= 512
            /\ drawing' = Append(drawing, <<mouseX, mouseY>>)]_vars

C5_Witness ==
    /\ mouseIsPressed /\ ~pressInL
    /\ Len(drawing) > pressBase
    /\ InL(drawing[Len(drawing)][1], drawing[Len(drawing)][2])

(* C6, as claimed: a frame appends a point only if a pointer-move event    *)
(* arrived since the frame before.                                         *)
C6_AppendOnlyAfterMove ==
    [][Len(drawing') > Len(drawing) => moved]_vars

(* C6, amended: the points added during a press are as many as the frames  *)
(* of that press at which the pointer position passed draw's test, moved   *)
(* or not, and each of them passes that test.                              *)
C6_OnePointPerPassingFrame ==
    /\ Len(drawing) = pressBase + pressTicks
    /\ \A i \in (pressBase + 1)..Len(drawing) :
            drawing[i][1] <= 512 /\ drawing[i][2] <= 512

C6_Witness ==
    /\ mouseIsPressed /\ pressTicks >= 2 /\ ~moved
    /\ drawing[Len(drawing)] = drawing[Len(drawing) - 1]
    /\ drawing[Len(drawing)] = <<mouseX, mouseY>>

(* C7: f computes one transformed point per stroke point, in stroke order, *)
(* and draws max(N - 1, 0) segments, the i-th from transformed point i to  *)
(* transformed point i + 1 (shifted down onto board P).                    *)
C7_FPreservesOrderAndCardinality ==
    boardP.rendered =>
        LET pts == boardP.stroke
            N == Len(pts)
            run == FRun(boardP.table, boardP.offset, pts)
            tp == [i \in 1..N |->
                    Displaced(boardP.table, Real(pts[i][1]), Real(pts[i][2]),
                              boardP.offset)]
        IN  /\ run.points = tp
            /\ Len(run.lines) = IF N >= 1 THEN N - 1 ELSE 0
            /\ \A i \in 1..Len(run.lines) :
                    run.lines[i] = <<tp[i][1], tp[i][2] + Real(512),
                                    tp[i + 1][1], tp[i + 1][2] + Real(512)>>
            /\ ShapesP = run.lines

C7_Witness ==
    /\ boardP.rendered
    /\ Len(boardP.stroke) >= 3
    /\ boardP.stroke[1] # boardP.stroke[2]
    /\ Len(ShapesP) = Len(boardP.stroke) - 1

(* C8: both offsets lie in [0, 1000) in every state, the initial one       *)
(* included.                                                               *)
C8_OffsetsInRange ==
    /\ 0 <= offsetR /\ offsetR < Real(randomMax)
    /\ 0 <= offsetA /\ offsetA < Real(randomMax)

C8_Witness ==
    /\ callLog # <<>>
    /\ offsetR = Real(randomMax) - 1
    /\ offsetA = 0

(* C9: for every real n in [0, 1), n * gap lies in [0, gap] and            *)
(* map(n, 0, 1, -10, 10) in [-10, 10]; every circle on R and A has its     *)
(* diameter in [0, gap], and every point computed by f and translateAToB   *)
(* is within 10 of its source point on each axis.                          *)
UnitInterval == 0..(Real(1) - 1)

C9_MapRange ==
    \A n \in UnitInterval :
        /\ 0 <= n * gap /\ n * gap <= Real(gap)
        /\ Real(mapLow) <= map(n, Real(0), Real(1), Real(mapLow), Real(mapHigh))
        /\ map(n, Real(0), Real(1), Real(mapLow), Real(mapHigh)) <= Real(mapHigh)

Within10(p, x, y) ==
    /\ Abs(p[1] - x) <= Real(mapHigh)
    /\ Abs(p[2] - y) <= Real(mapHigh)

DiametersInRange(circles) ==
    \A k \in DOMAIN circles : 0 <= circles[k][3] /\ circles[k][3] <= Real(gap)

C9_GridsInRange ==
    [table \in NoiseSeeds |-> [offset \in OffsetValues |->
        /\ DiametersInRange(CirclesR[table, offset])
        /\ DiametersInRange(CirclesA[table, offset])
        /\ \A k \in DOMAIN CentresB :
                Within10(PointsB[table, offset][k], CentresB[k][1], CentresB[k][2])]]

C9_NoiseDerivedRanges ==
    /\ C9_MapRange
    /\ boardR.rendered => C9_GridsInRange[boardR.table][boardR.offset]
    /\ boardA.rendered => C9_GridsInRange[boardA.table][boardA.offset]
    /\ boardB.rendered => C9_GridsInRange[boardB.table][boardB.offset]
    /\ boardP.rendered =>
            LET run == FRun(boardP.table, boardP.offset, boardP.stroke)
            IN  \A i \in DOMAIN boardP.stroke :
                    Within10(run.points[i], Real(boardP.stroke[i][1]),
                             Real(boardP.stroke[i][2]))

C9_Witness ==
    /\ boardP.rendered /\ boardB.rendered
    /\ Len(boardP.stroke) >= 2
    /\ \E k \in DOMAIN ShapesR : ShapesR[k][3] = 0
    /\ \E k \in DOMAIN ShapesR : ShapesR[k][3] = (Real(1) - 2) * gap
    /\ \E i \in DOMAIN boardP.stroke :
            FRun(boardP.table, boardP.offset, boardP.stroke).points[i][1]
                # Real(boardP.stroke[i][1])

(* C10: over a region with origin (ox, oy), extent (w, h) and step g > 0   *)
(* the loops visit exactly the centres (ox + g/2 + i*g, oy + g/2 + j*g)    *)
(* below ox + w and oy + h, x outermost, all inside the region; origin     *)
(* (0, 0), extent (40, 40), step 20 gives (10,10), (10,30), (30,10),       *)
(* (30,30); the grids of R and A are the enumerations of their 512 x 512   *)
(* regions and have the same number of columns and of rows.                *)
StepsBelow(extent, g) ==
    Cardinality({i \in 0..(extent \div g + 1) : Real(g) \div 2 + i * Real(g) < Real(extent)})

ExpectedCentres(in) ==
    LET nx == StepsBelow(in.w, in.g)
        ny == StepsBelow(in.h, in.g)
    IN  IF nx * ny = 0 THEN <<>>
        ELSE [k \in 1..(nx * ny) |->
                <<Real(in.ox) + Real(in.g) \div 2 + ((k - 1) \div ny) * Real(in.g),
                  Real(in.oy) + Real(in.g) \div 2 + ((k - 1) % ny) * Real(in.g)>>]

Columns(centres) == {centres[k][1] : k \in DOMAIN centres}
Rows(centres) == {centres[k][2] : k \in DOMAIN centres}

RegionOf(ox, oy, w, h, g) ==
    [ox |-> ox, oy |-> oy, w |-> w, h |-> h, g |-> g, done |-> TRUE]

C10_HalfStepInsetGrid ==
    gridIn.done =>
        /\ gridOut = ExpectedCentres(gridIn)
        /\ \A k \in DOMAIN gridOut :
                /\ Real(gridIn.ox) < gridOut[k][1]
                /\ gridOut[k][1] < Real(gridIn.ox + gridIn.w)
                /\ Real(gridIn.oy) < gridOut[k][2]
                /\ gridOut[k][2] < Real(gridIn.oy + gridIn.h)
        /\ gridIn = RegionOf(0, 0, 40, 40, 20) =>
                gridOut = << <<Real(10), Real(10)>>, <<Real(10), Real(30)>>,
                             <<Real(30), Real(10)>>, <<Real(30), Real(30)>> >>
        /\ gridIn = RegionOf(512, 0, 512, 512, gap) =>
                /\ gridOut = CentresR
                /\ Cardinality(Columns(gridOut)) = Cardinality(Columns(CentresA))
                /\ Cardinality(Rows(gridOut)) = Cardinality(Rows(CentresA))
        /\ gridIn = RegionOf(512, 512, 512, 512, gap) =>
                /\ gridOut = CentresA
                /\ Len(gridOut) = Cardinality(Columns(gridOut)) * Cardinality(Rows(gridOut))

C10_Witness ==
    /\ gridIn = RegionOf(0, 0, 40, 40, 20)
    /\ Len(gridOut) = 4

(* C11: translateAToB visits the centres dotGridA visited, in the same     *)
(* order and under the same offsetA, so the k-th point computed for board  *)
(* B is the k-th centre displaced by the noise sample that sized the k-th  *)
(* dot of board A; a board rendered again with the same offset shows the   *)
(* same shapes.                                                            *)
SampleOfDot(circle) == circle[3] \div gap

C11_DotsAndPoints ==
    [table \in NoiseSeeds |-> [oa \in OffsetValues |-> [ob \in OffsetValues |->
        /\ Len(PointsB[table, ob]) = Len(CirclesA[table, oa])
        /\ \A k \in DOMAIN CirclesA[table, oa] :
              LET dot == CirclesA[table, oa][k]
                  d == map(SampleOfDot(dot), Real(0), Real(1), Real(mapLow), Real(mapHigh))
              IN  PointsB[table, ob][k] = <<dot[1] + d, dot[2] + d>>]]]

C11_GridReproducible ==
    /\ CentresB = CentresA
    /\ boardA.rendered => boardA.offset = offsetA /\ boardA.table = perlin
    /\ boardR.rendered => boardR.offset = offsetR /\ boardR.table = perlin
    /\ boardB.rendered =>
            /\ boardA.rendered
            /\ boardB.table = boardA.table
            /\ boardB.offset = boardA.offset
            /\ C11_DotsAndPoints[boardA.table][boardA.offset][boardB.offset]

C11_Witness ==
    /\ boardB.rendered
    /\ boardB.offset # offsetR
    /\ \E k \in DOMAIN ShapesA :
            /\ ShapesA[k][3] # ShapesA[1][3]
            /\ PointsB[boardB.table, boardB.offset][k][1] # ShapesA[k][1]

(* C12: every point f and translateAToB compute is its source point moved  *)
(* by one scalar on both axes, newX - x = newY - y, and the scalar is      *)
(* map(n, 0, 1, -10, 10) of the one noise sample n taken at                *)
(* ((x + offset) * xScale, (y + offset) * yScale).                         *)
SameScalar(table, offset, x, y, new) ==
    LET n == noise(table, (x + offset) * xScale, (y + offset) * yScale)
        d == map(n, Real(0), Real(1), Real(mapLow), Real(mapHigh))
    IN  /\ new[1] - x = new[2] - y
        /\ new[1] - x = d

C12_GridB ==
    [table \in NoiseSeeds |-> [offset \in OffsetValues |->
        \A k \in DOMAIN CentresB :
            SameScalar(table, offset, CentresB[k][1], CentresB[k][2],
                       PointsB[table, offset][k])]]

C12_SameScalarBothAxes ==
    /\ boardB.rendered => C12_GridB[boardB.table][boardB.offset]
    /\ boardP.rendered =>
            LET run == FRun(boardP.table, boardP.offset, boardP.stroke)
            IN  \A i \in DOMAIN boardP.stroke :
                    SameScalar(boardP.table, boardP.offset,
                               Real(boardP.stroke[i][1]), Real(boardP.stroke[i][2]),
                               run.points[i])

C12_Witness ==
    /\ boardB.rendered /\ boardP.rendered
    /\ boardP.offset > 0
    /\ \E i \in DOMAIN boardP.stroke :
            /\ boardP.stroke[i][1] # boardP.stroke[i][2]
            /\ FRun(boardP.table, boardP.offset, boardP.stroke).points[i][1]
                    # Real(boardP.stroke[i][1])
    /\ \E k \in DOMAIN CentresB :
            PointsB[boardB.table, boardB.offset][k][1] # CentresB[k][1]

C14_ResetOnlyOnDoubleClickInL ==
    [][(pressCount' = pressCount + 1 /\ ResetFired(callLog')) =>
            /\ pressCount >= 1
            /\ lastClickTime' - lastClickTime < doubleClickThreshold
            /\ InL(mouseX', mouseY')]_vars

(* C15: in the steps of one pointer-up, field R is reseeded, then dotGridR *)
(* renders, then f transforms, and likewise offsetA, dotGridA,             *)
(* translateAToB for field A, with no write to a field's offset between    *)
(* its render and its transform; so board P was computed with the offset   *)
(* of board R's dots and board B with the offset of board A's dots.        *)
Position(log, op) == CHOOSE k \in DOMAIN log : log[k].op = op

SeedRenderTransform(log, seed, render, transform, field) ==
    /\ Position(log, seed) < Position(log, render)
    /\ Position(log, render) < Position(log, transform)
    /\ \A k \in Position(log, render)..Position(log, transform) : log[k].op # seed
    /\ log[Position(log, render)][field] = log[Position(log, seed)][field]
    /\ log[Position(log, transform)][field] = log[Position(log, seed)][field]

C15_TransformReadsOwnReseed ==
    /\ AfterRelease =>
            /\ \A op \in ReleaseSteps : OpCount(callLog, op) >= 1
            /\ SeedRenderTransform(callLog, "offsetR = random", "dotGridR", "f", "offsetR")
            /\ SeedRenderTransform(callLog, "offsetA = random", "dotGridA",
                                   "translateAToB", "offsetA")
            /\ boardP.offset = Entry(callLog, "offsetR = random").offsetR
            /\ boardB.offset = Entry(callLog, "offsetA = random").offsetA
    /\ boardP.rendered => boardR.rendered /\ boardP.offset = boardR.offset
    /\ boardB.rendered => boardA.rendered /\ boardB.offset = boardA.offset

C15_Witness ==
    /\ AfterRelease
    /\ callLog[1].offsetR # offsetR
    /\ callLog[1].offsetA # offsetA
    /\ boardP.offset = offsetR /\ boardB.offset = offsetA
    /\ Len(boardP.stroke) >= 1

(* C16: once a double-click inside region L (a second or later             *)
(* pointer-down) has run resetLeftSide, the stroke stays empty for the     *)
(* rest of that click, and the pointer-up that ends the click has f work   *)
(* on an empty stroke and draw no segment.                                 *)
InResettingClick ==
    /\ callLog # <<>> /\ callLog[1].op = "mousePressed" /\ ResetFired(callLog)
    /\ pressCount >= 2 /\ pressInL

C16_StrokeEmptyAfterReset ==
    /\ [](InResettingClick => drawing = <<>>)
    /\ [][(InResettingClick /\ callLog'[1].op = "mouseReleased") =>
            (boardP'.stroke = <<>> /\ ShapesP' = <<>>)]_vars

(* C17: only a pointer-down that runs resetLeftSide shortens the stroke:   *)
(* every other step keeps each point at its index, a pointer-up and a      *)
(* pointer-down that is not a double-click leave the stroke as it is, and  *)
(* when the stroke holds the points of an earlier drag followed by those   *)
(* of the latest one, f joins the last point of the former to the first    *)
(* point of the latter.                                                    *)
IsPrefix(s1, s2) == Len(s1) <= Len(s2) /\ \A i \in DOMAIN s1 : s2[i] = s1[i]

JoinedAcrossDrags ==
    (AfterRelease /\ pressBase >= 1 /\ Len(boardP.stroke) > pressBase) =>
        LET a == boardP.stroke[pressBase]
            b == boardP.stroke[pressBase + 1]
            ta == Displaced(boardP.table, Real(a[1]), Real(a[2]), boardP.offset)
            tb == Displaced(boardP.table, Real(b[1]), Real(b[2]), boardP.offset)
        IN  /\ Len(ShapesP) = Len(boardP.stroke) - 1
            /\ ShapesP[pressBase] = <<ta[1], ta[2] + Real(512), tb[1], tb[2] + Real(512)>>

StrokeKept ==
    /\ ~(pressCount' = pressCount + 1 /\ ResetFired(callLog')) =>
            IsPrefix(drawing, drawing')
    /\ (mouseIsPressed /\ ~mouseIsPressed') =>
            (drawing' = drawing /\ boardP'.stroke = drawing)
    /\ (pressCount' = pressCount + 1 /\ ~ResetFired(callLog')) =>
            drawing' = drawing

C17_OnlyResetClearsStroke == []JoinedAcrossDrags /\ [][StrokeKept]_vars

C17_Witness ==
    /\ AfterRelease /\ pressCount = 2
    /\ pressBase >= 1 /\ Len(boardP.stroke) > pressBase
    /\ drawing = boardP.stroke
    /\ Len(ShapesP) >= pressBase

(* C18: translateAToB draws N - 1 segments for its N grid points, the k-th *)
(* from point k to point k + 1 in loop order (shifted onto board B), the   *)
(* pair that spans two columns included: the guard prevX && prevY fails    *)
(* at the first point only, every displaced coordinate being at least 512. *)
C18_LinesOfGrid ==
    [table \in NoiseSeeds |-> [offset \in OffsetValues |->
        LET pts == PointsB[table, offset]
            lines == LinesB[table, offset]
            N == Len(CentresB)
        IN  /\ Len(pts) = N
            /\ \A k \in 1..N : pts[k][1] >= Real(512) /\ pts[k][2] >= Real(512)
            /\ \A k \in 1..N :
                    (Truthy(PrevB(pts, k).x) /\ Truthy(PrevB(pts, k).y)) <=> k > 1
            /\ Len(lines) = N - 1
            /\ \A k \in 1..(N - 1) :
                    lines[k] = <<pts[k][1] - Real(512), pts[k][2] + Real(512),
                                pts[k + 1][1] - Real(512), pts[k + 1][2] + Real(512)>>]]

C18_OneSegmentPerConsecutivePair ==
    boardB.rendered =>
        /\ C18_LinesOfGrid[boardB.table][boardB.offset]
        /\ Len(ShapesB) = Len(CentresA) - 1

ColumnLength == Cardinality(Rows(CentresB))

C18_Witness ==
    /\ boardB.rendered
    /\ Len(ShapesB) = Len(CentresB) - 1
    /\ Len(CentresB) > ColumnLength
    /\ CentresB[ColumnLength][1] # CentresB[ColumnLength + 1][1]
    /\ ShapesB[ColumnLength][2] > ShapesB[ColumnLength][4] + Real(400)

(* C19: every pointer-up writes both offsets from random and renders R, P, *)
(* A and B, wherever the press began and whether or not it captured a      *)
(* point; in every handler a field's offset is written from random before  *)
(* any step samples noise with it, setup included, so no board is ever     *)
(* rendered with an initial default (offsetR = 100, offsetA = 200) that    *)
(* was not drawn by random.                                                *)
SeededBefore(log, k, seed) == \E j \in 1..(k - 1) : log[j].op = seed

SamplesAfterSeed(log) ==
    \A k \in DOMAIN log :
        /\ log[k].op \in {"dotGridR", "f"} => SeededBefore(log, k, "offsetR = random")
        /\ log[k].op \in {"dotGridA", "translateAToB"} =>
                SeededBefore(log, k, "offsetA = random")

C19_ReleaseAlwaysReseedsAndRenders ==
    /\ SamplesAfterSeed(callLog)
    /\ ~started => \A b \in {boardR, boardA, boardP, boardB} : ~b.rendered
    /\ \A b \in {boardR, boardA, boardP, boardB} :
            b.rendered => b.offset \in random(randomMax)
    /\ started => boardR.rendered /\ boardA.rendered
    /\ AfterRelease =>
            /\ \A op \in ReleaseSteps : \E k \in DOMAIN callLog : callLog[k].op = op
            /\ boardR.rendered /\ boardP.rendered /\ boardA.rendered /\ boardB.rendered
            /\ boardR.offset = offsetR /\ boardP.offset = offsetR
            /\ boardA.offset = offsetA /\ boardB.offset = offsetA
            /\ boardP.stroke = drawing

C19_Witness ==
    /\ AfterRelease
    /\ ~pressInL /\ pressTicks = 0 /\ drawing = <<>>
    /\ callLog[1].offsetR # offsetR /\ callLog[1].offsetA # offsetA
    /\ boardR.rendered /\ boardP.rendered /\ boardA.rendered /\ boardB.rendered

=============================================================================
